---- MODULE Spec2Model ----
(***************************************************************************)
(* Session and credential lifecycle of the game-recommender UI:            *)
(*   TokenStore           src/src/utils/tokenManager.ts                    *)
(*   SessionCoordinator   src/src/context/AuthContext.tsx (AuthProvider)   *)
(*   RequestAuthenticator src/src/services/api.ts (axios interceptors)     *)
(*                                                                         *)
(* JavaScript runs one task at a time.  A step of this model is one task   *)
(* of the event loop: a user call, a timer firing or the arrival of one    *)
(* network response, together with every promise continuation that the    *)
(* task runs before the loop takes the next task.  Sequential code is      *)
(* written as operators from a world record w (the mutable state) to the   *)
(* world it leaves behind.                                                 *)
(*                                                                         *)
(* The server is the environment: a response is a 200, a 401, another      *)
(* failure; a 200 of an auth endpoint carries a fresh token or an empty    *)
(* one.  The role and steamId claims of a token are not modelled: a        *)
(* session derived from a token has the default role.                      *)
(***************************************************************************)
EXTENDS Integers, Sequences, FiniteSets, TLC

\* Bounds of the model.
MaxOps == 2
\* operations started after initialize in one run: ordinary API requests,
\* logouts and firings of the proactive timer
MaxTok == 1
\* tokens the server issues in one run

VARIABLES
    now,                  \* Date.now(), milliseconds: the reading at page load
    store,                \* localStorage: accessToken, sessionId, tokenExpiresAt
    authData,             \* AuthProvider state: <<>> (null) or <<session>>
    isLoading,            \* AuthProvider state
    error,                \* AuthProvider state
    timer,                \* refreshTimerRef and the timeout behind it
    calls,                \* the coordinator's asynchronous operations
    reqs,                 \* requests sent through the axios instance `api`
    isRefreshing,         \* api.ts module state
    refreshPromise,       \* api.ts module state: TRUE when not null
    successRefreshQueue,  \* api.ts module state: queued requests
    failedRefreshQueue,   \* api.ts module state: queued requests
    issued,               \* tokens issued by the server so far
    out,                  \* what the last task put out: requests sent, promises
                          \* settled, values returned by refreshToken()
    probe                 \* a token string handed to tokenManager on its own,
                          \* and what the function called gave back

vars == <<now, store, authData, isLoading, error, timer, calls, reqs,
          isRefreshing, refreshPromise, successRefreshQueue,
          failedRefreshQueue, issued, out, probe>>

\* The mutable state as one record, at the start of a task: nothing put out yet.
World ==
    [now |-> now, store |-> store, authData |-> authData,
     isLoading |-> isLoading, error |-> error, timer |-> timer,
     calls |-> calls, reqs |-> reqs, isRefreshing |-> isRefreshing,
     refreshPromise |-> refreshPromise,
     successRefreshQueue |-> successRefreshQueue,
     failedRefreshQueue |-> failedRefreshQueue, issued |-> issued,
     out |-> [sent |-> {}, settled |-> {}, returned |-> {}]]

\* The step leaves the world w.
Becomes(w) ==
    /\ now' = w.now
    /\ store' = w.store
    /\ authData' = w.authData
    /\ isLoading' = w.isLoading
    /\ error' = w.error
    /\ timer' = w.timer
    /\ calls' = w.calls
    /\ reqs' = w.reqs
    /\ isRefreshing' = w.isRefreshing
    /\ refreshPromise' = w.refreshPromise
    /\ successRefreshQueue' = w.successRefreshQueue
    /\ failedRefreshQueue' = w.failedRefreshQueue
    /\ issued' = w.issued
    /\ out' = w.out
    /\ probe' = probe

Max(a, b) == IF a >= b THEN a ELSE b

----------------------------------------------------------------------------
(* Tokens.  A token is what the structural check and the decoder see of    *)
(* it: id 0 is the empty string or null, fmt says whether it has three     *)
(* base64url segments, sub is the subject claim (0: none usable), exp the  *)
(* expiry claim in epoch seconds (0: none).                                *)

NoToken == [id |-> 0, sub |-> 0, fmt |-> FALSE, exp |-> 0]

\* The credential a previous page load may have left in localStorage.
OldToken(exp) == [id |-> MaxTok + 1, sub |-> MaxTok + 1, fmt |-> TRUE, exp |-> exp]

\* localStorage: the three keys, and whether the storage is broken, that is,
\* whether every access to it throws (storage disabled or denied)
EmptyStore ==
    [accessToken |-> NoToken, sessionId |-> 0, expiresAt |-> 0, broken |-> FALSE]

BrokenStore == [EmptyStore EXCEPT !.broken = TRUE]

\* no token string is under test
NoProbe == [token |-> <<>>, fn |-> "none", result |-> <<>>]

NoError == "null"

\* The proactive timer: st says what refreshTimerRef holds ("none": null,
\* "pending": the id of a timeout not yet fired, "fired": the id of one that
\* fired), delay is the delay of that timeout in ms, stray counts the
\* timeouts still pending whose id the ref no longer holds.
NoTimer == [st |-> "none", delay |-> 0, stray |-> 0]

----------------------------------------------------------------------------
(* TokenStore: tokenManager.ts                                             *)

\* setTokens({accessToken, sessionId, expiresIn}); expiresIn 0 is falsy
\* the first setItem throws on broken storage; the catch logs and returns
setTokens(w, data) ==
    IF w.store.broken THEN w
    ELSE [w EXCEPT !.store =
            [accessToken |-> data.accessToken,
             sessionId |-> data.sessionId,
             expiresAt |-> IF data.expiresIn # 0
                           THEN w.now + data.expiresIn * 1000
                           ELSE @.expiresAt,
             broken |-> FALSE]]

\* getItem throws on broken storage; the catch returns null
getAccessToken(w) == IF w.store.broken THEN NoToken ELSE w.store.accessToken

getSessionId(w) == IF w.store.broken THEN 0 ELSE w.store.sessionId

getExpiresAt(w) == IF w.store.broken THEN 0 ELSE w.store.expiresAt

\* clearTokens without the removeItem of line 108
clearTokensKeepExpiry(w) ==
    IF w.store.broken THEN w
    ELSE [w EXCEPT !.store = [EmptyStore EXCEPT !.expiresAt = w.store.expiresAt]]

\* the first removeItem throws on broken storage; the catch logs and returns
clearTokens(w) == IF w.store.broken THEN w ELSE [w EXCEPT !.store = EmptyStore]

\* isTokenExpired without the 5 second buffer of line 80
isTokenExpiredNoBuffer(w) ==
    IF getExpiresAt(w) = 0 THEN FALSE ELSE w.now >= getExpiresAt(w)

\* isTokenExpired, lines 72-81: no expiry stored is "not expired"
isTokenExpired(w) ==
    IF getExpiresAt(w) = 0 THEN FALSE ELSE w.now >= getExpiresAt(w) - 5000

isValidTokenFormat(token) == token.id # 0 /\ token.fmt

\* the claims of the payload segment
decodeToken(token) == [sub |-> token.sub, exp |-> token.exp]

----------------------------------------------------------------------------
(* Sessions: api.ts                                                        *)

authSessionFromPreAuth(resp) ==
    [accessToken |-> resp.accessToken,
     accessExpiresIn |-> resp.accessExpiresIn,
     role |-> resp.role,
     sessionId |-> resp.sessionId]

\* payload.sub ?? tokenManager.getSessionId() ?? ''
SubOrStored(w, token) ==
    IF decodeToken(token).sub # 0 THEN decodeToken(token).sub ELSE getSessionId(w)

authSessionFromAccessToken(w, resp) ==
    [accessToken |-> resp.accessToken,
     accessExpiresIn |-> resp.accessExpiresIn,
     role |-> "GUEST",
     sessionId |-> SubOrStored(w, resp.accessToken)]

----------------------------------------------------------------------------
(* SessionCoordinator: AuthContext.tsx                                     *)

\* getValidStoredSession without the 5 second buffer of line 43
getValidStoredSessionNoBuffer(w) ==
    LET accessToken == getAccessToken(w)
        payload == decodeToken(accessToken)
        expiresAtMs == payload.exp * 1000
        sessionId == IF payload.sub # 0 THEN payload.sub ELSE getSessionId(w)
    IN  IF accessToken.id = 0 \/ ~isValidTokenFormat(accessToken) THEN <<>>
        ELSE IF payload.exp = 0 THEN <<>>
        ELSE IF w.now >= expiresAtMs THEN <<>>
        ELSE IF sessionId = 0 THEN <<>>
        ELSE <<[accessToken |-> accessToken,
                accessExpiresIn |-> Max(1, (expiresAtMs - w.now) \div 1000),
                role |-> "GUEST",
                sessionId |-> sessionId]>>

\* getValidStoredSession, lines 24-67
getValidStoredSession(w) ==
    LET accessToken == getAccessToken(w)
        payload == decodeToken(accessToken)
        expiresAtMs == payload.exp * 1000
        sessionId == IF payload.sub # 0 THEN payload.sub ELSE getSessionId(w)
    IN  IF accessToken.id = 0 \/ ~isValidTokenFormat(accessToken) THEN <<>>
        ELSE IF payload.exp = 0 THEN <<>>
        ELSE IF w.now >= expiresAtMs - 5000 THEN <<>>
        ELSE IF sessionId = 0 THEN <<>>
        ELSE <<[accessToken |-> accessToken,
                accessExpiresIn |-> Max(1, (expiresAtMs - w.now) \div 1000),
                role |-> "GUEST",
                sessionId |-> sessionId]>>

clearRefreshTimer(w) ==
    IF w.timer.st # "none"
    THEN [w EXCEPT !.timer.st = "none", !.timer.delay = 0]
    ELSE w

clearAuth(w) ==
    [clearTokens(clearRefreshTimer(w)) EXCEPT !.authData = <<>>]

\* refreshTime with the 80% rule alone
refreshTimeEighty(expiresIn) == expiresIn * 800

\* refreshTime with the one-minute rule alone
refreshTimeMinute(expiresIn) == expiresIn * 1000 - 60000

\* Math.max(expiresIn * 1000 * 0.8, expiresIn * 1000 - 60000)
refreshTime(expiresIn) == Max(expiresIn * 800, expiresIn * 1000 - 60000)

\* the assignment of line 88: a timeout still pending under the old id is
\* out of reach from then on
SetTimer(w, delay) ==
    [w EXCEPT !.timer = [st |-> "pending", delay |-> delay,
                         stray |-> IF @.st = "pending" THEN @.stray + 1
                                   ELSE @.stray]]

\* scheduleTokenRefresh without the clearRefreshTimer of line 83
scheduleTokenRefreshNoClear(w, expiresIn) ==
    SetTimer(w, refreshTime(expiresIn))

scheduleTokenRefresh(w, expiresIn) ==
    SetTimer(clearRefreshTimer(w), refreshTime(expiresIn))

setError(w, msg) == [w EXCEPT !.error = msg]

\* login left by an exception of setTokens when the storage is broken
loginAborted(w, session) ==
    LET w1 == [w EXCEPT !.authData = <<session>>, !.error = NoError]
        w2 == setTokens(w1, [accessToken |-> session.accessToken,
                             sessionId |-> session.sessionId,
                             expiresIn |-> session.accessExpiresIn])
    IN  IF session.accessToken.id = 0 \/ w.store.broken THEN w1
        ELSE IF session.accessExpiresIn = 0 THEN w2
        ELSE scheduleTokenRefresh(w2, session.accessExpiresIn)

\* login, lines 93-109
login(w, session) ==
    LET w1 == [w EXCEPT !.authData = <<session>>, !.error = NoError]
        w2 == setTokens(w1, [accessToken |-> session.accessToken,
                             sessionId |-> session.sessionId,
                             expiresIn |-> session.accessExpiresIn])
    IN  IF session.accessToken.id = 0 THEN w1
        ELSE IF session.accessExpiresIn = 0 THEN w2
        ELSE scheduleTokenRefresh(w2, session.accessExpiresIn)

----------------------------------------------------------------------------
(* RequestAuthenticator: the axios instance `api` of api.ts                *)
(*                                                                         *)
(* A request is [kind, owner, st, retry, sends]:                           *)
(*   kind   "ordinary" (gamesApi.proceed) or "preauth"                     *)
(*          (authApi.preAuthorize, which posts through `api`)              *)
(*   owner  the coordinator call awaiting a "preauth" request, else 0      *)
(*   st     "inflight"  sent, no response yet                              *)
(*          "renewing"  its 401 started the renewal; the refresh call of   *)
(*                      refreshAccessToken() is outstanding                *)
(*          "fallback"  as above, the preAuthorize fallback is outstanding *)
(*          "queued"    its continuation is in the two queues              *)
(*          "done"      settled towards its caller (the record is cleared) *)
(*   retry  originalRequest._retry                                         *)
(*   sends  times it was sent to the server                                *)
(* What leaves the component is written to out: out.sent has [r, auth] for *)
(* a request put on the wire, auth the id of the token in its              *)
(* Authorization header (0: no header); out.settled has [r, res] for a     *)
(* promise settled towards its caller, res "ok" or the error.              *)

\* a request interceptor that attaches nothing
requestInterceptorIdle(w, header) == header

\* request interceptor: the header is overwritten when the store has a token
requestInterceptor(w, header) ==
    IF getAccessToken(w).id # 0 THEN getAccessToken(w).id ELSE header

\* api.post(...): a new request leaves
NewRequest(w, kind, owner) ==
    [w EXCEPT !.reqs = Append(@,
                 [kind |-> kind, owner |-> owner, st |-> "inflight",
                  retry |-> FALSE, sends |-> 1]),
              !.out.sent = @ \cup {[r |-> Len(w.reqs) + 1,
                                    auth |-> requestInterceptor(w, 0)]}]

\* originalRequest.headers.Authorization = `Bearer ${token}`; api(originalRequest)
Resend(w, r, token) ==
    [w EXCEPT !.reqs[r].st = "inflight",
              !.reqs[r].sends = @ + 1,
              !.out.sent = @ \cup {[r |-> r,
                                    auth |-> requestInterceptor(w, token.id)]}]

----------------------------------------------------------------------------
(* Continuations of the coordinator's calls.                               *)
(*                                                                         *)
(* A call is [op, pc]:                                                     *)
(*   op   "init" (initializeAuth), "logout", "timer" (refreshToken run by  *)
(*        the proactive timer; nothing else in the repository calls it)    *)
(*   pc   "refresh"   awaiting authApi.refresh() in refreshToken           *)
(*        "fallback"  awaiting authApi.preAuthorize() in refreshToken      *)
(*        "preauth"   awaiting authApi.preAuthorize() in logout or in      *)
(*                    initializeAuth                                       *)
(*        "done"      finished (op is "done" too)                          *)
(* out.returned has [c, val] when refreshToken() of call c returned val.   *)

\* A settled request is of no further use: only its kind is kept.
Settled(req) ==
    [kind |-> req.kind, owner |-> 0, st |-> "done", retry |-> FALSE, sends |-> 0]

\* A finished call is of no further use.
Finished == [op |-> "done", pc |-> "done"]

\* refreshToken() of call c returns; initializeAuth goes on from its await
RefreshReturned(w, c, val) ==
    LET w1 == [w EXCEPT !.out.returned = @ \cup {[c |-> c, val |-> val]}]
    IN  IF w.calls[c].op = "init"
        THEN IF val
             THEN [w1 EXCEPT !.isLoading = FALSE, !.calls[c] = Finished]
             ELSE NewRequest([w1 EXCEPT !.calls[c].pc = "preauth"], "preauth", c)
        ELSE [w1 EXCEPT !.calls[c] = Finished]

\* refreshToken, lines 149-151: both calls failed
RefreshGaveUp(w, c) ==
    RefreshReturned(clearAuth(setError(w, "Failed to refresh token")), c, FALSE)

\* the fallback of refreshToken without the login of line 142
PreAuthResolvedNoLogin(w, c, resp) ==
    IF w.calls[c].pc = "fallback"
    THEN IF resp.accessToken.id # 0
         THEN RefreshReturned(w, c, TRUE)
         ELSE RefreshGaveUp(w, c)
    ELSE IF w.calls[c].op = "logout"
    THEN [login(w, authSessionFromPreAuth(resp)) EXCEPT !.calls[c] = Finished]
    ELSE [login(w, authSessionFromPreAuth(resp)) EXCEPT
             !.isLoading = FALSE, !.calls[c] = Finished]

\* authApi.preAuthorize() of call c resolved with resp
PreAuthResolved(w, c, resp) ==
    IF w.calls[c].pc = "fallback"
    THEN IF resp.accessToken.id # 0
         THEN RefreshReturned(login(w, authSessionFromPreAuth(resp)), c, TRUE)
         ELSE RefreshGaveUp(w, c)
    ELSE IF w.calls[c].op = "logout"
    THEN [login(w, authSessionFromPreAuth(resp)) EXCEPT !.calls[c] = Finished]
    ELSE [login(w, authSessionFromPreAuth(resp)) EXCEPT
             !.isLoading = FALSE, !.calls[c] = Finished]

\* authApi.preAuthorize() of call c threw
PreAuthRejected(w, c) ==
    IF w.calls[c].pc = "fallback"
    THEN RefreshGaveUp(w, c)
    ELSE IF w.calls[c].op = "logout"
    THEN [setError(w, "Failed to authorize") EXCEPT !.calls[c] = Finished]
    ELSE [clearAuth(setError(w, "Failed to pre-authorize")) EXCEPT
             !.isLoading = FALSE, !.calls[c] = Finished]

\* the promise of request r is rejected with err; its caller goes on
Reject(w, r, err) ==
    LET w1 == [w EXCEPT !.reqs[r] = Settled(@),
                        !.out.settled = @ \cup {[r |-> r, res |-> err]}]
    IN  IF w.reqs[r].kind = "preauth"
        THEN PreAuthRejected(w1, w.reqs[r].owner)
        ELSE w1

\* the promise of request r is resolved with the response; its caller goes on
Resolve(w, r, resp) ==
    LET w1 == [w EXCEPT !.reqs[r] = Settled(@),
                        !.out.settled = @ \cup {[r |-> r, res |-> "ok"]}]
    IN  IF w.reqs[r].kind = "preauth"
        THEN PreAuthResolved(w1, w.reqs[r].owner, resp)
        ELSE w1

RECURSIVE RejectAll(_, _, _)
RejectAll(w, queue, err) ==
    IF queue = <<>> THEN w
    ELSE RejectAll(Reject(w, Head(queue), err), Tail(queue), err)

RECURSIVE ResendAll(_, _, _)
ResendAll(w, queue, token) ==
    IF queue = <<>> THEN w
    ELSE ResendAll(Resend(w, Head(queue), token), Tail(queue), token)

----------------------------------------------------------------------------
(* Response interceptor, api.ts lines 37-129.                              *)

\* the queueing without the push of lines 53-55
EnqueueSuccessOnly(w, r) ==
    [w EXCEPT !.reqs[r].st = "queued",
              !.successRefreshQueue = Append(@, r)]

\* lines 46-57: the request waits for the renewal in flight
Enqueue(w, r) ==
    [w EXCEPT !.reqs[r].st = "queued",
              !.successRefreshQueue = Append(@, r),
              !.failedRefreshQueue = Append(@, r)]

\* lines 59-61: the renewal starts; refreshAccessToken() posts /auth/refresh
StartRefresh(w, r) ==
    [w EXCEPT !.isRefreshing = TRUE, !.refreshPromise = TRUE,
              !.reqs[r].st = "renewing"]

\* Variants of the error handler, each with one of its conditions left out.

\* without the check of line 47: every first 401 starts a renewal of its own
responseErrorNoQueue(w, r, status) ==
    IF status = "e401" /\ ~w.reqs[r].retry
    THEN StartRefresh([w EXCEPT !.reqs[r].retry = TRUE], r)
    ELSE Reject(w, r, status)

\* without the _retry test of line 43: every 401 is handled
responseErrorNoRetryFlag(w, r, status) ==
    IF status = "e401"
    THEN LET w1 == [w EXCEPT !.reqs[r].retry = TRUE]
         IN  IF w1.isRefreshing /\ w1.refreshPromise
             THEN Enqueue(w1, r)
             ELSE StartRefresh(w1, r)
    ELSE Reject(w, r, status)

\* without the status test of line 43: every failure is handled as a 401
responseErrorAnyStatus(w, r, status) ==
    IF ~w.reqs[r].retry
    THEN LET w1 == [w EXCEPT !.reqs[r].retry = TRUE]
         IN  IF w1.isRefreshing /\ w1.refreshPromise
             THEN Enqueue(w1, r)
             ELSE StartRefresh(w1, r)
    ELSE Reject(w, r, status)

\* a 401 of a request already retried also clears the store
responseErrorClears(w, r, status) ==
    IF status = "e401" /\ ~w.reqs[r].retry
    THEN LET w1 == [w EXCEPT !.reqs[r].retry = TRUE]
         IN  IF w1.isRefreshing /\ w1.refreshPromise
             THEN Enqueue(w1, r)
             ELSE StartRefresh(w1, r)
    ELSE IF status = "e401"
    THEN Reject(clearTokens(w), r, status)
    ELSE Reject(w, r, status)

\* lines 39-57 and 125-128: the error handler up to its first await
responseError(w, r, status) ==
    IF status = "e401" /\ ~w.reqs[r].retry
    THEN LET w1 == [w EXCEPT !.reqs[r].retry = TRUE]
         IN  IF w1.isRefreshing /\ w1.refreshPromise
             THEN Enqueue(w1, r)
             ELSE StartRefresh(w1, r)
    ELSE Reject(w, r, status)

\* finally without line 122
FinallyKeepsFlag(w) == [w EXCEPT !.refreshPromise = FALSE]

\* finally, lines 121-124
Finally(w) == [w EXCEPT !.isRefreshing = FALSE, !.refreshPromise = FALSE]

\* lines 66-74 and 100-107: the queued requests and request r are sent again
RetryAll(w, r, token) ==
    LET w1 == ResendAll(w, w.successRefreshQueue, token)
        w2 == [w1 EXCEPT !.successRefreshQueue = <<>>, !.failedRefreshQueue = <<>>]
    IN  Finally(Resend(w2, r, token))

\* refreshAccessToken without the setTokens of lines 145-149
refreshAccessTokenNoStore(w, resp) == w

\* refreshAccessToken, lines 138-150: the refresh call returned a token
refreshAccessToken(w, resp) ==
    setTokens(w, [accessToken |-> resp.accessToken,
                  sessionId |-> SubOrStored(w, resp.accessToken),
                  expiresIn |-> resp.accessExpiresIn])

\* lines 91-107: the preAuthorize fallback returned a token
FallbackSucceeded(w, r, resp) ==
    RetryAll(setTokens(w, [accessToken |-> resp.accessToken,
                           sessionId |-> resp.sessionId,
                           expiresIn |-> resp.accessExpiresIn]),
             r, resp.accessToken)

\* the failure path without the forEach of line 114
FallbackFailedNoDrain(w, r) ==
    LET w1 == [w EXCEPT !.successRefreshQueue = <<>>, !.failedRefreshQueue = <<>>]
    IN  Reject(Finally(clearTokens(w1)), r, "erefresh")

\* lines 113-124: refresh and preAuthorize both failed.  The queued promises
\* are rejected first, the handlers awaiting them run after the synchronous
\* code, in the order of the rejections.
FallbackFailed(w, r) ==
    LET queue == w.failedRefreshQueue
        w1 == [w EXCEPT !.successRefreshQueue = <<>>, !.failedRefreshQueue = <<>>]
        w2 == Finally(clearTokens(w1))
    IN  Reject(RejectAll(w2, queue, "erefresh"), r, "erefresh")

----------------------------------------------------------------------------
(* The server.                                                             *)

\* accessExpiresIn of a response, seconds; 0 stands for an absent or zero value
ExpiresIns == {0, 100}

IssuedToken(w, sub, expiresIn) ==
    [id |-> w.issued + 1, sub |-> sub, fmt |-> TRUE,
     exp |-> w.now \div 1000 + expiresIn]

Issue(w) == [w EXCEPT !.issued = @ + 1]

\* POST /auth/preAuthorize answers with a new anonymous session
PreAuthResponse(w, expiresIn) ==
    [accessToken |-> IssuedToken(w, w.issued + 1, expiresIn),
     accessExpiresIn |-> expiresIn,
     role |-> "ROLE_ANONYMOUS",
     sessionId |-> w.issued + 1]

\* a 200 of /auth/preAuthorize without a token
EmptyPreAuthResponse ==
    [accessToken |-> NoToken, accessExpiresIn |-> 0,
     role |-> "ROLE_ANONYMOUS", sessionId |-> 0]

\* POST /auth/refresh answers with a new token, with or without a subject claim
RefreshResponse(w, sub, expiresIn) ==
    [accessToken |-> IssuedToken(w, sub, expiresIn),
     accessExpiresIn |-> expiresIn]

Subs(w) == {0, w.issued + 1}

----------------------------------------------------------------------------
(* Initial state: the module api.ts is loaded, AuthProvider is not mounted  *)
(* yet, localStorage holds what an earlier page load left.                 *)

OldStore ==
    [accessToken |-> OldToken(6), sessionId |-> MaxTok + 1, expiresAt |-> 6000,
     broken |-> FALSE]

\* The page is loaded with an empty store or with a stored token that is
\* still valid, 1000 ms before its safety margin.
Init ==
    /\ now = 0
    /\ store \in {EmptyStore, OldStore}
    /\ authData = <<>>
    /\ isLoading = TRUE
    /\ error = NoError
    /\ timer = NoTimer
    /\ calls = <<>>
    /\ reqs = <<>>
    /\ isRefreshing = FALSE
    /\ refreshPromise = FALSE
    /\ successRefreshQueue = <<>>
    /\ failedRefreshQueue = <<>>
    /\ issued = 0
    /\ out = [sent |-> {}, settled |-> {}, returned |-> {}]
    /\ probe = NoProbe

NewCall(op, pc) == [op |-> op, pc |-> pc]

Started == calls # <<>>

\* The cleanup of the mount effect, lines 189-191, has run: the provider is
\* torn down.  It is recorded among the operations of the coordinator.
TornDown == NewCall("unmount", "done")

Unmounted == \E c \in DOMAIN calls : calls[c] = TornDown

\* App.tsx renders its controls (the send form, the logout button) once the
\* provider is mounted, isLoading is false (line 118) and error is null
\* (line 134); before that it shows a loading or an error screen.
Usable == Started /\ ~Unmounted /\ ~isLoading /\ error = NoError

Ordinary == {r \in DOMAIN reqs : reqs[r].kind = "ordinary"}

----------------------------------------------------------------------------
(* Tasks of the coordinator.                                               *)

\* initializeAuth without the return of line 169
initializeAuthNoReturn(w) ==
    LET w1 == [w EXCEPT !.isLoading = TRUE, !.error = NoError]
        storedSession == getValidStoredSession(w1)
    IN  IF storedSession # <<>>
        THEN [login(w1, storedSession[1]) EXCEPT
                 !.calls = <<NewCall("init", "refresh")>>]
        ELSE [w1 EXCEPT !.calls = <<NewCall("init", "refresh")>>]

\* initializeAuth, AuthContext.tsx lines 160-187, up to its first await
initializeAuth(w) ==
    LET w1 == [w EXCEPT !.isLoading = TRUE, !.error = NoError]
        storedSession == getValidStoredSession(w1)
    IN  IF storedSession # <<>>
        THEN [login(w1, storedSession[1]) EXCEPT
                 !.isLoading = FALSE, !.calls = <<Finished>>]
        ELSE [w1 EXCEPT !.calls = <<NewCall("init", "refresh")>>]

\* logout, lines 111-123, up to the preAuthorize call
logout(w) ==
    LET w1 == clearAuth(setError(w, NoError))
        w2 == [w1 EXCEPT !.calls = Append(@, NewCall("logout", "preauth"))]
    IN  NewRequest(w2, "preauth", Len(w2.calls))

\* refreshToken, lines 125-127: authApi.refresh() is posted
refreshToken(w, op) ==
    [w EXCEPT !.calls = Append(@, NewCall(op, "refresh"))]

\* the timeout of scheduleTokenRefresh, lines 88-90
timerFired(w) ==
    refreshToken([w EXCEPT !.timer.st = "fired"], "timer")

\* refreshToken, lines 129-132: the refresh call returned a token
refreshTokenOk(w, c, resp) ==
    RefreshReturned(login(w, authSessionFromAccessToken(w, resp)), c, TRUE)

\* refreshToken, line 134: the refresh call returned no token
refreshTokenEmpty(w, c) == RefreshReturned(w, c, FALSE)

\* refreshToken, lines 135-140: the refresh call failed
refreshTokenFailed(w, c) ==
    NewRequest([w EXCEPT !.calls[c].pc = "fallback"], "preauth", c)

Mount ==
    /\ ~Started
    /\ Becomes(initializeAuth(World))

\* operations started after initialize
Ops == Cardinality(Ordinary) + Len(calls) - 1

Logout ==
    /\ Usable
    /\ Ops < MaxOps
    /\ Becomes(logout(World))

TimerFire ==
    /\ timer.st = "pending"
    /\ Ops < MaxOps
    /\ Becomes(timerFired(World))

CoordRefreshOk(c) ==
    /\ calls[c].pc = "refresh"
    /\ issued < MaxTok
    /\ \E sub \in Subs(World), e \in ExpiresIns :
          Becomes(refreshTokenOk(Issue(World), c, RefreshResponse(World, sub, e)))

CoordRefreshEmpty(c) ==
    /\ calls[c].pc = "refresh"
    /\ Becomes(refreshTokenEmpty(World, c))

CoordRefreshFail(c) ==
    /\ calls[c].pc = "refresh"
    /\ Becomes(refreshTokenFailed(World, c))

----------------------------------------------------------------------------
(* Tasks of the request authenticator.                                     *)

\* gamesApi.proceed, lines 243-254.  It is an exported operation: the model
\* lets its calls overlap, the case the queues of the interceptor are for.
SendOrdinary ==
    /\ Usable
    /\ Ops < MaxOps
    /\ Becomes(NewRequest(World, "ordinary", 0))

\* a 200 for an ordinary request
ApiOk(r) ==
    /\ reqs[r].st = "inflight"
    /\ reqs[r].kind = "ordinary"
    /\ Becomes(Resolve(World, r, EmptyPreAuthResponse))

\* a 200 with a new anonymous session for authApi.preAuthorize
ApiPreAuthOk(r) ==
    /\ reqs[r].st = "inflight"
    /\ reqs[r].kind = "preauth"
    /\ issued < MaxTok
    /\ \E e \in ExpiresIns :
          Becomes(Resolve(Issue(World), r, PreAuthResponse(World, e)))

\* a 200 without a token for authApi.preAuthorize
ApiPreAuthEmpty(r) ==
    /\ reqs[r].st = "inflight"
    /\ reqs[r].kind = "preauth"
    /\ Becomes(Resolve(World, r, EmptyPreAuthResponse))

\* the request fails: "e401" a 401, "e500" another status, "net" no response
ApiErrorWith(r, status) ==
    /\ reqs[r].st = "inflight"
    /\ Becomes(responseError(World, r, status))

ApiError(r) == \E status \in {"e401", "e500", "net"} : ApiErrorWith(r, status)

\* the refresh call of refreshAccessToken() returns a token
RenewRefreshOk(r) ==
    /\ reqs[r].st = "renewing"
    /\ issued < MaxTok
    /\ \E sub \in Subs(World), e \in ExpiresIns :
          LET resp == RefreshResponse(World, sub, e)
          IN  Becomes(RetryAll(refreshAccessToken(Issue(World), resp), r,
                               resp.accessToken))

\* refreshAccessToken() returns null (the call failed or carried no token):
\* lines 75-89, the preAuthorize fallback is posted
RenewRefreshNull(r) ==
    /\ reqs[r].st = "renewing"
    /\ Becomes([World EXCEPT !.reqs[r].st = "fallback"])

\* the fallback returns a token
RenewFallbackOk(r) ==
    /\ reqs[r].st = "fallback"
    /\ issued < MaxTok
    /\ \E e \in ExpiresIns :
          Becomes(FallbackSucceeded(Issue(World), r, PreAuthResponse(World, e)))

\* the fallback fails or carries no token
RenewFallbackFail(r) ==
    /\ reqs[r].st = "fallback"
    /\ Becomes(FallbackFailed(World, r))

Next ==
    \/ Mount
    \/ Logout
    \/ TimerFire
    \/ SendOrdinary
    \/ \E c \in DOMAIN calls : CoordRefreshOk(c)
    \/ \E c \in DOMAIN calls : CoordRefreshEmpty(c)
    \/ \E c \in DOMAIN calls : CoordRefreshFail(c)
    \/ \E r \in DOMAIN reqs : ApiOk(r)
    \/ \E r \in DOMAIN reqs : ApiPreAuthOk(r)
    \/ \E r \in DOMAIN reqs : ApiPreAuthEmpty(r)
    \/ \E r \in DOMAIN reqs : ApiError(r)
    \/ \E r \in DOMAIN reqs : RenewRefreshOk(r)
    \/ \E r \in DOMAIN reqs : RenewRefreshNull(r)
    \/ \E r \in DOMAIN reqs : RenewFallbackOk(r)
    \/ \E r \in DOMAIN reqs : RenewFallbackFail(r)

Spec == Init /\ [][Next]_vars

\* The calls of a renewal return: axios answers each with a response or an error.
RenewalReturns ==
    \E r \in DOMAIN reqs :
        \/ RenewRefreshOk(r)
        \/ RenewRefreshNull(r)
        \/ RenewFallbackOk(r)
        \/ RenewFallbackFail(r)

FairSpec == Spec /\ WF_vars(RenewalReturns)

\* requests a run can create: one per operation, two by initializeAuth
ReqIds == 1 .. (MaxOps + 2)

\* the renewal of the 401 handler is in flight for request r
Renewing(r) == reqs[r].st \in {"renewing", "fallback"}

\* this step ends the renewal that request r started
RenewalSettles(r) == Renewing(r) /\ ~Renewing(r)'

Queued == {q \in DOMAIN reqs : reqs[q].st = "queued"}

\* with requests rs and output o: request q was sent again in the task, once,
\* with token id t in its header, and its promise is still pending
ResentIn(rs, o, q, t) ==
    /\ rs[q].st = "inflight"
    /\ rs[q].retry
    /\ rs[q].sends = 2
    /\ {e \in o.sent : e.r = q} = {[r |-> q, auth |-> t]}
    /\ {e \in o.settled : e.r = q} = {}

\* with requests rs and output o: request q was rejected in the task, once,
\* with err, and was not sent
RejectedIn(rs, o, q, err) ==
    /\ rs[q].st = "done"
    /\ {e \in o.settled : e.r = q} = {[r |-> q, res |-> err]}
    /\ {e \in o.sent : e.r = q} = {}

\* in the state reached
ResentWith(q, t) == ResentIn(reqs, out, q, t)

RejectedWith(q, err) == RejectedIn(reqs, out, q, err)

\* by this step
ResentNext(q, t) == ResentIn(reqs', out', q, t)

RejectedNext(q, err) == RejectedIn(reqs', out', q, err)

----------------------------------------------------------------------------
(* Properties of the renewal in the response interceptor.                  *)

Renewers == {r \in DOMAIN reqs : Renewing(r)}

\* a first 401 of request r is handled in this step
First401(r) == reqs[r].st = "inflight" /\ reqs'[r].st \in {"renewing", "queued"}

\* C1 Single-flight.  A request in state "renewing" is one call of the
\* interceptor to /auth/refresh.  At most one request carries a renewal at a
\* time and the flag is set exactly while one does; the 401 of a request
\* starts a renewal (one refresh call) exactly when none is in flight and
\* queues the request otherwise, so a storm has one starter and its other
\* requests are queued behind it; when the renewal ends, either a token was
\* obtained and the starter and every queued request are sent again with
\* that one token, or none was and all of them are rejected with the one
\* error of the renewal.
C1_SingleFlight ==
    /\ [](/\ Cardinality(Renewers) <= 1
          /\ isRefreshing <=> Renewers # {}
          /\ Queued # {} => Renewers # {})
    /\ [][\A r \in DOMAIN reqs :
            /\ First401(r) =>
                  /\ reqs'[r].st = "renewing" <=> Renewers = {}
                  /\ reqs'[r].st = "queued" <=> Renewers # {}
                  /\ \A q \in Renewers \cup Queued : reqs'[q] = reqs[q]
            /\ RenewalSettles(r) =>
                  \/ /\ issued' = issued + 1
                     /\ \A q \in {r} \cup Queued : ResentNext(q, issued')
                  \/ /\ issued' = issued
                     /\ \A q \in {r} \cup Queued : RejectedNext(q, "erefresh")]_vars

\* two ordinary requests of one storm were sent again with the token renewed
C1_Witness ==
    \E q1, q2 \in Ordinary :
        /\ q1 # q2
        /\ issued > 0
        /\ ResentWith(q1, issued)
        /\ ResentWith(q2, issued)

\* calls to /auth/refresh that are outstanding: authApi.refresh() awaited by
\* refreshToken, and the call of refreshAccessToken()
RefreshCallsOutstanding ==
    Cardinality({c \in DOMAIN calls : calls[c].pc = "refresh"})
        + Cardinality({r \in DOMAIN reqs : reqs[r].st = "renewing"})

\* C2 At most one call to /auth/refresh is outstanding at any instant, over
\* the 401 handler and the refreshToken of the timer and of initializeAuth.
C2_OneRefreshOutstanding == RefreshCallsOutstanding <= 1

\* C3 No double-retry.  A request marked _retry that fails again, with a 401
\* or anything else, is rejected with that error, is not sent, starts no
\* renewal and joins no queue; a request is sent at most twice, and only a
\* request sent once waits for a renewal.
C3_NoDoubleRetry ==
    /\ [](\A r \in DOMAIN reqs :
            /\ reqs[r].sends <= 2
            /\ reqs[r].sends = 2 => reqs[r].retry /\ reqs[r].st = "inflight")
    /\ [][\A r \in DOMAIN reqs : \A status \in {"e401", "e500", "net"} :
            (reqs[r].retry /\ ApiErrorWith(r, status)) =>
                /\ RejectedNext(r, status)
                /\ UNCHANGED <<isRefreshing, refreshPromise,
                               successRefreshQueue, failedRefreshQueue>>
                /\ \A q \in DOMAIN reqs : q # r => reqs'[q] = reqs[q]]_vars

\* an ordinary request sent a second time got a 401 again and was rejected
C3_Witness ==
    \E r \in Ordinary : [r |-> r, res |-> "e401"] \in out.settled

\* the requests of a queue, and how often request q is in it
InQueue(queue) == {queue[i] : i \in DOMAIN queue}

Times(queue, q) == Cardinality({i \in DOMAIN queue : queue[i] = q})

\* request q exists and waits in the queues
QueuedAt(q) == q \in DOMAIN reqs /\ reqs[q].st = "queued"

\* C4 Queued requests are settled with the renewal.  The requests in state
\* "queued" are those of the two queues, once in each, and they wait only
\* while a renewal is in flight; a queued request leaves the queue only in
\* the step that ends the renewal, and in that step it is sent again, once,
\* with the token obtained, or rejected, once, with the error of the
\* renewal; a settled request stays settled; and, the calls of the renewal
\* returning, a queued request does not stay queued.
C4_QueuedSettled ==
    /\ [](/\ InQueue(successRefreshQueue) = Queued
          /\ InQueue(failedRefreshQueue) = Queued
          /\ \A q \in Queued : /\ Times(successRefreshQueue, q) = 1
                                /\ Times(failedRefreshQueue, q) = 1
          /\ Queued # {} => Renewers # {})
    /\ [][\A q \in Queued :
            \/ reqs'[q] = reqs[q]
            \/ \E r \in Renewers :
                  /\ RenewalSettles(r)
                  /\ \/ issued' = issued + 1 /\ ResentNext(q, issued')
                     \/ issued' = issued /\ RejectedNext(q, "erefresh")]_vars
    /\ [][\A q \in DOMAIN reqs :
            reqs[q].st = "done" =>
                reqs'[q].st = "done" /\ q \notin InQueue(successRefreshQueue')]_vars
    /\ \A q \in ReqIds :
          QueuedAt(q) ~> ~QueuedAt(q)

\* a renewal failed and the request queued behind it was rejected with it
C4_Witness ==
    \E r, q \in DOMAIN reqs :
        /\ r # q
        /\ ~isRefreshing
        /\ RejectedWith(r, "erefresh")
        /\ RejectedWith(q, "erefresh")

\* C5 The request that started a renewal.  In the step that ends the renewal
\* either a token was obtained (from the refresh call or from the fallback),
\* the store holds it and the request is sent again, once, with that token
\* in its header, which is its second and last send; or no token was obtained
\* and the request is rejected with the error of the renewal and not sent;
\* a rejected request is never sent again.
C5_StarterRetriedOnce ==
    /\ [][\A r \in DOMAIN reqs :
            RenewalSettles(r) =>
                \/ /\ issued' = issued + 1
                   /\ getAccessToken(World').id = issued'
                   /\ ResentNext(r, issued')
                \/ /\ issued' = issued
                   /\ RejectedNext(r, "erefresh")]_vars
    /\ [][\A r \in DOMAIN reqs :
            reqs[r].st = "done" =>
                reqs'[r].st = "done" /\ {e \in out'.sent : e.r = r} = {}]_vars
    /\ [](\A r \in DOMAIN reqs : Renewing(r) => reqs[r].sends = 1)

\* a renewal started by a lone request obtained a token; the request is sent
\* again with it
C5_Witness ==
    \E r \in Ordinary :
        /\ issued > 0
        /\ ResentWith(r, issued)
        /\ out.sent = {[r |-> r, auth |-> issued]}
        /\ ~isRefreshing

\* C6 Renewal exhaustion.  When the refresh call and the fallback have both
\* failed, in the 401 handler (the renewal ends without a token) or in
\* refreshToken (its fallback fails and it returns false), then the current
\* session is null, the store is empty, the error is set and every queued
\* request has been rejected.
C6_Exhaustion ==
    [][(\/ \E r \in DOMAIN reqs : RenewalSettles(r) /\ issued' = issued
        \/ \E c \in DOMAIN calls :
              calls[c].pc = "fallback" /\ [c |-> c, val |-> FALSE] \in out'.returned)
       => /\ authData' = <<>>
          /\ store' = EmptyStore
          /\ error' # NoError
          /\ \A q \in Queued : RejectedNext(q, "erefresh")]_vars

----------------------------------------------------------------------------
(* Who writes the shared state.                                            *)

\* Code of the coordinator runs in this step: each of its tasks and each
\* continuation of its calls appends a call, moves one on or finishes one.
CoordinatorRuns == calls' # calls

\* C7 as stated: the store and the current session are written only by the
\* coordinator; a step in which only the request authenticator runs changes
\* neither the store nor the current session.
C7_OnlyCoordinatorWrites ==
    [][~CoordinatorRuns => UNCHANGED <<store, authData>>]_vars

\* C7 as the code has it: a step in which only the request authenticator
\* runs leaves the current session, the error and the timer of the
\* coordinator unchanged, and changes the store only when it ends a renewal:
\* to the token obtained, or to the empty store when none was obtained.
C7_AuthenticatorWritesStoreInRenewal ==
    [][~CoordinatorRuns =>
          /\ UNCHANGED <<authData, error, isLoading, timer>>
          /\ store' # store =>
                \E r \in Renewers :
                    /\ RenewalSettles(r)
                    /\ \/ issued' = issued + 1 /\ store'.accessToken.id = issued'
                       \/ issued' = issued /\ store' = EmptyStore]_vars

\* a renewal of the 401 handler stored a token that the current session of
\* the coordinator does not have
C7_Witness ==
    \E r \in Ordinary :
        /\ issued > 0
        /\ ResentWith(r, issued)
        /\ store.accessToken.id = issued
        /\ authData # <<>>
        /\ authData[1].accessToken.id # issued

\* C8 A failure other than a 401.  The request is rejected with that very
\* error and is not sent again; the flag and the queues do not change and no
\* other request is touched; for an ordinary request nothing is sent at all
\* and the session, the store, the error and the timer do not change.
C8_Non401Propagated ==
    [][\A r \in DOMAIN reqs : \A status \in {"e500", "net"} :
          ApiErrorWith(r, status) =>
              /\ RejectedNext(r, status)
              /\ UNCHANGED <<isRefreshing, refreshPromise,
                             successRefreshQueue, failedRefreshQueue>>
              /\ \A q \in DOMAIN reqs : q # r => reqs'[q] = reqs[q]
              /\ reqs[r].kind = "ordinary" =>
                    /\ out'.sent = {}
                    /\ UNCHANGED <<authData, store, error, timer, calls>>]_vars

\* an ordinary request failed without a 401 and was rejected with its error
C8_Witness ==
    \E r \in Ordinary : \E status \in {"e500", "net"} :
        /\ RejectedWith(r, status)
        /\ authData # <<>>

\* C9 A 401 of the preAuthorize call.  The call fails outright: its promise
\* is rejected with the 401, no renewal starts and the call is not queued.
\* (The refresh calls are posted with plain axios, past the interceptors.)
C9_AuthCalls401Outright ==
    [][\A r \in DOMAIN reqs :
          (reqs[r].kind = "preauth" /\ ApiErrorWith(r, "e401")) =>
              /\ RejectedNext(r, "e401")
              /\ UNCHANGED <<isRefreshing, refreshPromise,
                             successRefreshQueue, failedRefreshQueue>>]_vars

----------------------------------------------------------------------------
(* Properties of the coordinator.                                          *)

\* refreshToken() of call c returns val in this step
Returns(c, val) == [c |-> c, val |-> val] \in out'.returned

\* C11 The result of refreshToken.  It returns true exactly when it
\* installed, by login, the session of a token obtained during the call;
\* when it returns false it had attempted the fallback before, and the
\* current session is null and the store is empty.
C11_RefreshResult ==
    [][\A c \in DOMAIN calls :
          /\ Returns(c, TRUE) =>
                /\ issued' = issued + 1
                /\ authData' # <<>>
                /\ authData'[1].accessToken.id = issued'
          /\ Returns(c, FALSE) =>
                /\ calls[c].pc = "fallback"
                /\ authData' = <<>>
                /\ store' = EmptyStore]_vars

\* initializeAuth is call 1 and has not finished
Initializing == Started /\ calls[1].op = "init"

\* C12 The order of initializeAuth.  With a valid stored session it adopts
\* that session and finishes: no call is made, to the network or to
\* refreshToken.  Otherwise it calls refreshToken and nothing else; while the
\* refresh call is outstanding no request is on its way to preAuthorize;
\* and when refreshToken returns true it finishes without sending anything.
C12_InitializeOrder ==
    /\ [][~Started =>
            IF getValidStoredSession(World) # <<>>
            THEN /\ calls' = <<Finished>>
                 /\ authData' = getValidStoredSession(World)
                 /\ ~isLoading'
                 /\ reqs' = <<>> /\ out'.sent = {}
            ELSE /\ calls' = <<NewCall("init", "refresh")>>
                 /\ authData' = <<>>
                 /\ reqs' = <<>> /\ out'.sent = {}]_vars
    /\ []((Initializing /\ calls[1].pc = "refresh") => reqs = <<>>)
    /\ [][(Initializing /\ Returns(1, TRUE)) =>
            /\ calls'[1] = Finished
            /\ ~isLoading'
            /\ out'.sent = {}
            /\ calls[1].pc = "refresh" => reqs' = <<>>]_vars

\* initializeAuth finished on the refresh call: no request was ever sent to
\* preAuthorize
C12_Witness ==
    /\ calls = <<Finished>>
    /\ [c |-> 1, val |-> TRUE] \in out.returned
    /\ reqs = <<>>
    /\ authData # <<>>
    /\ ~isLoading

\* initializeAuth finishes in this step
InitializeEnds ==
    \/ ~Started /\ calls' = <<Finished>>
    \/ Initializing /\ calls'[1] = Finished

\* C13 The end of initializeAuth.  isLoading is false and either there is a
\* current session with a non-empty access token and no error, or there is
\* no session, the store is empty and the error is set.
C13_InitializeEnd ==
    [][InitializeEnds =>
          /\ ~isLoading'
          /\ \/ /\ authData' # <<>>
                /\ authData'[1].accessToken.id # 0
                /\ error' = NoError
             \/ /\ authData' = <<>>
                /\ store' = EmptyStore
                /\ error' # NoError]_vars

\* logout() is called in this step: its call is the one appended
LogoutCalled ==
    /\ Len(calls') = Len(calls) + 1
    /\ calls'[Len(calls')].op = "logout"

\* the preAuthorize request r of the logout call c is answered in this step:
\* with a new session (res "ok", a token issued), or with the error res
LogoutAnswered(c, r, res) ==
    /\ calls[c].op = "logout"
    /\ reqs[r].owner = c
    /\ reqs[r].st \in {"inflight", "queued", "renewing", "fallback"}
    /\ [r |-> r, res |-> res] \in out'.settled
    /\ res = "ok" => issued' = issued + 1

\* C14 Logout continuity.  logout() clears the timer, the store and the
\* current session and sends one preAuthorize request, in the same task;
\* when that request brings a new session, the session is the current one
\* and the store holds its token and session id; when the request fails,
\* there is no current session and the error is set.
C14_LogoutContinuity ==
    /\ [][LogoutCalled =>
            /\ timer'.st = "none"
            /\ store' = EmptyStore
            /\ authData' = <<>>
            /\ Len(reqs') = Len(reqs) + 1
            /\ reqs'[Len(reqs')].kind = "preauth"
            /\ reqs'[Len(reqs')].owner = Len(calls')
            /\ out'.sent = {[r |-> Len(reqs'), auth |-> 0]}]_vars
    /\ [][\A c \in DOMAIN calls : \A r \in DOMAIN reqs :
            /\ LogoutAnswered(c, r, "ok") =>
                  /\ authData' # <<>>
                  /\ authData'[1].accessToken.id = issued'
                  /\ authData'[1].sessionId = issued'
                  /\ store'.accessToken = authData'[1].accessToken
                  /\ store'.sessionId = issued'
                  /\ error' = NoError
            /\ \A res \in {"e401", "e500", "net", "erefresh"} :
                  LogoutAnswered(c, r, res) =>
                      /\ authData' = <<>>
                      /\ error' # NoError]_vars

\* The refresh of call c was started by a timer that refreshTimerRef no
\* longer holds: since the timer fired, the session it belonged to has been
\* cleared (only logout does so while the call is outstanding).
Stale(c) == calls[c].op = "timer" /\ timer.st # "fired"

\* the anonymous session installed after a logout is current and stored
AnonymousCurrent ==
    /\ authData # <<>>
    /\ authData[1].role = "ROLE_ANONYMOUS"
    /\ authData[1].accessToken.id # 0
    /\ store.accessToken = authData[1].accessToken

\* C15 A refresh outstanding across a logout.  When the refreshToken call
\* that the logout overtook completes after the logout's preAuthorize
\* response, the anonymous session installed by the logout is still the
\* current session and the store still holds it.
C15_StaleRefreshDiscarded ==
    [][\A c \in DOMAIN calls :
          (Stale(c) /\ AnonymousCurrent /\ calls'[c] = Finished) =>
              UNCHANGED <<authData, store>>]_vars

----------------------------------------------------------------------------
(* login and the proactive timer.                                          *)
(*                                                                         *)
(* login is handed whatever session a response of the server yields, at    *)
(* whatever moment the response arrives, and the context exports it to     *)
(* every component.  LoginSpec runs the operations that touch the timer    *)
(* (initializeAuth, logout, the firing of the timer) and lets login be     *)
(* called with any session between them; the page is loaded at different   *)
(* clock readings with different stored tokens.                            *)

\* accessExpiresIn of a session, seconds; 0 stands for an absent value too
Lifetimes == {-5, 0, 1, 100, 300, 301, 3600}

SomeToken == [id |-> 1, sub |-> 1, fmt |-> TRUE, exp |-> 0]

LoginSessions ==
    {[accessToken |-> tok, accessExpiresIn |-> e,
      role |-> "ROLE_ANONYMOUS", sessionId |-> tok.id] :
        tok \in {NoToken, SomeToken}, e \in Lifetimes}

\* exp claims of the stored token, epoch seconds, and clock readings at load
StoredExps == {6, 7, 3700}

LoadTimes == {0, 999, 1000}

LoginInit ==
    /\ now \in LoadTimes
    /\ store \in {EmptyStore} \cup
                 {[accessToken |-> OldToken(exp), sessionId |-> MaxTok + 1,
                   expiresAt |-> exp * 1000, broken |-> FALSE] :
                     exp \in StoredExps}
    /\ authData = <<>>
    /\ isLoading = TRUE
    /\ error = NoError
    /\ timer = NoTimer
    /\ calls = <<>>
    /\ reqs = <<>>
    /\ isRefreshing = FALSE
    /\ refreshPromise = FALSE
    /\ successRefreshQueue = <<>>
    /\ failedRefreshQueue = <<>>
    /\ issued = 0
    /\ out = [sent |-> {}, settled |-> {}, returned |-> {}]
    /\ probe = NoProbe

\* login(session), AuthContext.tsx lines 93-109
LoginCall(s) ==
    /\ Started
    /\ Becomes(login(World, s))

LoginNext ==
    \/ Mount
    \/ Logout
    \/ TimerFire
    \/ \E s \in LoginSessions : LoginCall(s)

LoginSpec == LoginInit /\ [][LoginNext]_vars

\* a login installs a session in this step
LoginRan == authData' # <<>> /\ authData' # authData

\* C16 login and the earlier timer.  After a login no timer of an earlier
\* session is pending: a timer pending before is cancelled, and the timer
\* pending afterwards, if any, is the one scheduled for the session logged
\* in, which then has a token and a lifetime.
C16_LoginClearsTimer ==
    [][(LoginRan /\ timer.st = "pending") =>
          \/ timer'.st # "pending"
          \/ /\ authData'[1].accessToken.id # 0
             /\ authData'[1].accessExpiresIn # 0
             /\ timer'.delay = refreshTime(authData'[1].accessExpiresIn)]_vars

\* C17 When login schedules.  login(s) schedules a refresh if and only if
\* s.accessExpiresIn is strictly positive: for a positive lifetime the timer
\* is pending afterwards with the delay of that lifetime, for a lifetime
\* absent, zero or negative the login schedules nothing (a timer pending
\* afterwards is one that was pending before).
C17_SchedulesIffPositive ==
    [][\A s \in LoginSessions :
          LoginCall(s) =>
              /\ s.accessExpiresIn > 0 =>
                    /\ timer'.st = "pending"
                    /\ timer'.delay = refreshTime(s.accessExpiresIn)
              /\ s.accessExpiresIn <= 0 =>
                    (timer'.st = "pending" => timer' = timer)]_vars

\* the delay of the proactive refresh for a lifetime of L seconds, ms:
\* 80% of the lifetime up to 300 s, one minute before its end from there on
ExpectedDelay(L) == IF L <= 300 THEN 800 * L ELSE 1000 * L - 60000

\* a lifetime and a token: what makes login schedule
Schedules(s) == s.accessToken.id # 0 /\ s.accessExpiresIn > 0

\* C18 Proactive scheduling.  After login of a session with a token and a
\* lifetime of L > 0 seconds the timer is pending with a delay of
\* max(800 L, 1000 L - 60000) ms: 80 s for L = 100, 3540 s for L = 3600.
C18_ProactiveDelay ==
    [][\A s \in LoginSessions :
          (LoginCall(s) /\ Schedules(s)) =>
              /\ timer'.st = "pending"
              /\ timer'.delay = ExpectedDelay(s.accessExpiresIn)
              /\ s.accessExpiresIn = 100 => timer'.delay = 80000
              /\ s.accessExpiresIn = 3600 => timer'.delay = 3540000]_vars

\* a session of 3600 s is current, its refresh is due in 3540 s
C18_Witness ==
    /\ authData # <<>>
    /\ authData[1].accessExpiresIn = 3600
    /\ authData[1].accessToken.id # 0
    /\ timer.st = "pending"
    /\ timer.delay = 3540000

\* C19 The refresh comes before the expiry.  After login of a session with
\* a token and a lifetime of L > 0 seconds the delay is at least 0 and less
\* than L seconds; for the session restored from the store at load, the
\* timer is due before the instant of the token's exp claim.
C19_DelayBeforeExpiry ==
    /\ [][\A s \in LoginSessions :
            (LoginCall(s) /\ Schedules(s)) =>
                /\ timer'.st = "pending"
                /\ timer'.delay >= 0
                /\ timer'.delay < 1000 * s.accessExpiresIn]_vars
    /\ [][(~Started /\ authData' # <<>>) =>
            /\ authData'[1].accessExpiresIn > 0
            /\ timer'.st = "pending"
            /\ timer'.delay >= 0
            /\ timer'.delay < 1000 * authData'[1].accessExpiresIn
            /\ now + timer'.delay < 1000 * decodeToken(getAccessToken(World)).exp]_vars

\* a session restored less than six seconds before its expiry is current,
\* its refresh is due
C19_Witness ==
    /\ calls = <<Finished>>
    /\ authData # <<>>
    /\ authData[1].role = "GUEST"
    /\ authData[1].accessExpiresIn = 5
    /\ timer.st = "pending"
    /\ timer.delay = 4000

\* timeouts of scheduleTokenRefresh that are pending
PendingTimeouts == timer.stray + (IF timer.st = "pending" THEN 1 ELSE 0)

\* C20 One timer.  At most one timeout of scheduleTokenRefresh is pending,
\* the one refreshTimerRef holds, whatever the order of logins, logouts,
\* firings of the timer and of initializeAuth.
C20_OneTimer == PendingTimeouts <= 1 /\ timer.stray = 0

\* initializeAuth restored a session and scheduled its refresh, nothing
\* cleared or fired that timer, and a login has scheduled another over it
C20_Witness ==
    /\ calls = <<Finished>>
    /\ timer.st = "pending"
    /\ timer.delay = 80000
    /\ PendingTimeouts = 1
    /\ authData # <<>>
    /\ authData[1].role = "ROLE_ANONYMOUS"
    /\ authData[1].accessExpiresIn = 100

----------------------------------------------------------------------------
(* The environment at large: the provider can be torn down while calls are *)
(* outstanding, and the server's tokens need not be well formed.           *)

\* the cleanup of the mount effect, lines 189-191: clearRefreshTimer()
unmount(w) == [clearRefreshTimer(w) EXCEPT !.calls = Append(@, TornDown)]

Unmount ==
    /\ Started
    /\ ~Unmounted
    /\ Ops < MaxOps
    /\ Becomes(unmount(World))

\* a token of the server that fails the three-segment check
MalformedToken(w, sub, expiresIn) ==
    [IssuedToken(w, sub, expiresIn) EXCEPT !.fmt = FALSE]

\* POST /auth/refresh answers with such a token
CoordRefreshMalformed(c) ==
    /\ calls[c].pc = "refresh"
    /\ issued < MaxTok
    /\ \E sub \in Subs(World), e \in ExpiresIns :
          Becomes(refreshTokenOk(Issue(World), c,
                     [accessToken |-> MalformedToken(World, sub, e),
                      accessExpiresIn |-> e]))

\* POST /auth/preAuthorize answers with such a token
ApiPreAuthMalformed(r) ==
    /\ reqs[r].st = "inflight"
    /\ reqs[r].kind = "preauth"
    /\ issued < MaxTok
    /\ \E e \in ExpiresIns :
          Becomes(Resolve(Issue(World), r,
                     [PreAuthResponse(World, e) EXCEPT
                         !.accessToken = MalformedToken(World, World.issued + 1, e)]))

OpenNext ==
    \/ Next
    \/ Unmount
    \/ \E c \in DOMAIN calls : CoordRefreshMalformed(c)
    \/ \E r \in DOMAIN reqs : ApiPreAuthMalformed(r)

OpenSpec == Init /\ [][OpenNext]_vars

\* C21: once the provider is torn down, no timeout of the proactive refresh is
\* pending (so none can fire), also after a call that was outstanding at the
\* teardown has completed.
C21_NoTimerAfterTeardown == Unmounted => PendingTimeouts = 0

\* C22: no token that fails isValidTokenFormat is adopted: the access token of
\* the current session and the token of the store, when not empty, pass the
\* three-segment check, wherever the token came from.
C22_OnlyWellFormedAdopted ==
    /\ (authData # <<>> /\ authData[1].accessToken.id # 0)
          => isValidTokenFormat(authData[1].accessToken)
    /\ getAccessToken(World).id # 0 => isValidTokenFormat(getAccessToken(World))

\* C23: a current session with a non-empty access token has a non-empty
\* session id.
C23_SessionIdPresent ==
    (authData # <<>> /\ authData[1].accessToken.id # 0)
        => authData[1].sessionId # 0

----------------------------------------------------------------------------
(* tokenManager on token strings.  A string is a sequence of characters;   *)
(* isValidTokenFormat and decodeToken are computed on it as the code does: *)
(* split('.'), base64UrlToBase64, atob, JSON.parse.                         *)

\* the value of a character in the alphabet of atob (standard base64), -1 for
\* a character outside of it; the table is cut down to the characters used
B64Value(c) ==
    CASE c = "I" -> 8
      [] c = "e" -> 30
      [] c = "g" -> 32
      [] c = "j" -> 35
      [] c = "p" -> 41
      [] c = "0" -> 52
      [] c = "3" -> 55
      [] c = "+" -> 62
      [] c = "/" -> 63
      [] OTHER -> -1

\* String.prototype.split('.')
RECURSIVE SplitFrom(_, _, _)
SplitFrom(str, i, part) ==
    IF i > Len(str) THEN <<part>>
    ELSE IF str[i] = "." THEN <<part>> \o SplitFrom(str, i + 1, <<>>)
    ELSE SplitFrom(str, i + 1, Append(part, str[i]))

split(str) == SplitFrom(str, 1, <<>>)

\* Array.prototype.join('.')
RECURSIVE join(_)
join(parts) ==
    IF parts = <<>> THEN <<>>
    ELSE IF Len(parts) = 1 THEN parts[1]
    ELSE parts[1] \o <<".">> \o join(Tail(parts))

\* base64UrlToBase64, lines 5-12
base64UrlToBase64(input) ==
    LET base64 == [k \in 1 .. Len(input) |->
                      IF input[k] = "-" THEN "+"
                      ELSE IF input[k] = "_" THEN "/" ELSE input[k]]
        padLength == Len(base64) % 4
    IN  IF padLength # 0
        THEN base64 \o [k \in 1 .. (4 - padLength) |-> "="]
        ELSE base64

\* atob, first step: a string whose length is a multiple of four loses one or
\* two "=" at its end
Unpadded(data) ==
    LET n == Len(data)
    IN  IF n = 0 \/ n % 4 # 0 \/ data[n] # "=" THEN data
        ELSE IF data[n - 1] = "=" THEN SubSeq(data, 1, n - 2)
        ELSE SubSeq(data, 1, n - 1)

\* atob throws InvalidCharacterError
AtobThrows(data) ==
    LET d == Unpadded(data)
    IN  \/ Len(d) % 4 = 1
        \/ \E k \in 1 .. Len(d) : B64Value(d[k]) = -1

\* the bytes that six-bit values decode to; bits left over are dropped
RECURSIVE Bytes(_)
Bytes(v) ==
    IF Len(v) >= 4
    THEN LET n == ((v[1] * 64 + v[2]) * 64 + v[3]) * 64 + v[4]
         IN  <<n \div 65536, (n \div 256) % 256, n % 256>>
                \o Bytes(SubSeq(v, 5, Len(v)))
    ELSE IF Len(v) = 3
    THEN LET n == (v[1] * 64 + v[2]) * 64 + v[3]
         IN  <<n \div 1024, (n \div 4) % 256>>
    ELSE IF Len(v) = 2
    THEN <<(v[1] * 64 + v[2]) \div 16>>
    ELSE <<>>

\* atob where it does not throw: the character codes of the decoded string
atob(data) ==
    LET d == Unpadded(data)
    IN  Bytes([k \in 1 .. Len(d) |-> B64Value(d[k])])

\* JSON.parse, for the texts the token strings below decode to: the empty
\* object {} and a string literal; any other text here is no JSON text and
\* makes JSON.parse throw
JsonString(text) ==
    /\ Len(text) >= 2
    /\ text[1] = 34
    /\ text[Len(text)] = 34
    /\ \A k \in 2 .. (Len(text) - 1) : text[k] >= 32 /\ text[k] \notin {34, 92}

JsonParseThrows(text) == text # <<123, 125>> /\ ~JsonString(text)

JsonParse(text) == IF text = <<123, 125>> THEN "object" ELSE "string"

\* isValidTokenFormat, lines 117-133
isValidTokenFormatText(token) ==
    IF token = <<>> THEN FALSE
    ELSE LET parts == split(token)
         IN  IF Len(parts) # 3 THEN FALSE
             ELSE \A k \in 1 .. 3 : ~AtobThrows(base64UrlToBase64(parts[k]))

\* decodeToken, lines 138-147: <<>> is null
decodeTokenText(token) ==
    LET parts == split(token)
    IN  IF Len(parts) < 2 THEN <<>>
        ELSE IF AtobThrows(base64UrlToBase64(parts[2])) THEN <<>>
        ELSE IF JsonParseThrows(atob(base64UrlToBase64(parts[2]))) THEN <<>>
        ELSE <<JsonParse(atob(base64UrlToBase64(parts[2])))>>

\* segments of the token strings under test: empty; "e30", the empty object;
\* "e3" and "e3-", base64url of no JSON text; "e", of a length no base64 has;
\* "!!", outside both alphabets; "e3+", standard base64 and not base64url;
\* "Ij_pIg" and "Ij/pIg", a JSON string in base64url and in standard base64
Segments ==
    {<<>>, <<"e", "3", "0">>, <<"e", "3">>, <<"e", "3", "-">>, <<"e">>,
     <<"!", "!">>, <<"e", "3", "+">>, <<"I", "j", "_", "p", "I", "g">>,
     <<"I", "j", "/", "p", "I", "g">>}

MaxSegments == 4

TokenTexts ==
    {join(parts) : parts \in UNION {[1 .. n -> Segments] : n \in 0 .. MaxSegments}}

TokenInit ==
    /\ now = 0
    /\ store = EmptyStore
    /\ authData = <<>>
    /\ isLoading = TRUE
    /\ error = NoError
    /\ timer = NoTimer
    /\ calls = <<>>
    /\ reqs = <<>>
    /\ isRefreshing = FALSE
    /\ refreshPromise = FALSE
    /\ successRefreshQueue = <<>>
    /\ failedRefreshQueue = <<>>
    /\ issued = 0
    /\ out = [sent |-> {}, settled |-> {}, returned |-> {}]
    /\ probe \in {[token |-> t, fn |-> "none", result |-> <<>>] : t \in TokenTexts}

CallFormat ==
    /\ probe.fn = "none"
    /\ probe' = [probe EXCEPT !.fn = "isValidTokenFormat",
                              !.result = <<isValidTokenFormatText(probe.token)>>]
    /\ UNCHANGED <<now, store, authData, isLoading, error, timer, calls, reqs,
                   isRefreshing, refreshPromise, successRefreshQueue,
                   failedRefreshQueue, issued, out>>

CallDecode ==
    /\ probe.fn = "none"
    /\ probe' = [probe EXCEPT !.fn = "decodeToken",
                              !.result = decodeTokenText(probe.token)]
    /\ UNCHANGED <<now, store, authData, isLoading, error, timer, calls, reqs,
                   isRefreshing, refreshPromise, successRefreshQueue,
                   failedRefreshQueue, issued, out>>

TokenNext == CallFormat \/ CallDecode

TokenSpec == TokenInit /\ [][TokenNext]_vars

\* base64url, RFC 4648 section 5: letters, digits, "-" and "_", in a length
\* that a base64 text can have
IsBase64Url(part) ==
    /\ Len(part) % 4 # 1
    /\ \A k \in 1 .. Len(part) :
          part[k] \in {"-", "_"} \/ (B64Value(part[k]) >= 0 /\ part[k] \notin {"+", "/"})

\* C24: isValidTokenFormat(token) is true exactly when the token splits on "."
\* into three segments and each of them is valid base64url.
C24_FormatIffThreeBase64Url ==
    probe.fn = "isValidTokenFormat" =>
        probe.result[1] = (/\ Len(split(probe.token)) = 3
                           /\ \A k \in 1 .. 3 : IsBase64Url(split(probe.token)[k]))

\* a token string is malformed: it has no payload segment, or its payload is
\* not base64url, or its payload is not the encoding of a JSON text
Malformed(token) ==
    LET parts == split(token)
    IN  \/ Len(parts) < 2
        \/ ~IsBase64Url(parts[2])
        \/ AtobThrows(base64UrlToBase64(parts[2]))
        \/ JsonParseThrows(atob(base64UrlToBase64(parts[2])))

\* C29: decodeToken returns null for every malformed token string.
C29_MalformedDecodesToNull ==
    (probe.fn = "decodeToken" /\ Malformed(probe.token)) => probe.result = <<>>

\* C25: isTokenExpired() is true exactly when an expiry is stored and the
\* clock has reached the expiry less 5000 ms; it is false before that instant
\* and whenever no expiry is stored.
C25_ExpiredIffWithinBuffer ==
    isTokenExpired(World) = (store.expiresAt # 0 /\ now >= store.expiresAt - 5000)

\* the clock is exactly 5000 ms before the stored expiry, after a login
C25_Witness ==
    /\ authData # <<>>
    /\ store.expiresAt = 6000
    /\ now = 1000
    /\ isTokenExpired(World)

\* C26: after setTokens every persisted field belongs to this call: the token
\* and the session id are the given ones, the expiry is now + expiresIn * 1000
\* when a lifetime is given, and no expiry is stored when none is given.
C26_FieldsOfThisCall ==
    [][(LoginRan /\ authData'[1].accessToken.id # 0) =>
          /\ store'.accessToken = authData'[1].accessToken
          /\ store'.sessionId = authData'[1].sessionId
          /\ store'.expiresAt =
                IF authData'[1].accessExpiresIn # 0
                THEN now' + authData'[1].accessExpiresIn * 1000
                ELSE 0]_vars

\* C28: setTokens(a, s, e) followed by getAccessToken() and getSessionId() gives
\* a and s; after clearTokens() the three getters give null whatever was
\* stored; clearTokens() twice is clearTokens() once.
C28_RoundTripAndClear ==
    /\ \A s \in LoginSessions :
          LET w == setTokens(World, [accessToken |-> s.accessToken,
                                     sessionId |-> s.sessionId,
                                     expiresIn |-> s.accessExpiresIn])
          IN  /\ getAccessToken(w) = s.accessToken
              /\ getSessionId(w) = s.sessionId
              /\ getAccessToken(clearTokens(w)) = NoToken
    /\ getAccessToken(clearTokens(World)) = NoToken
    /\ getSessionId(clearTokens(World)) = 0
    /\ getExpiresAt(clearTokens(World)) = 0
    /\ clearTokens(clearTokens(World)) = clearTokens(World)

\* a login has stored a token, a session id and an expiry
C28_Witness ==
    /\ authData # <<>>
    /\ authData[1].role = "ROLE_ANONYMOUS"
    /\ getAccessToken(World) = SomeToken
    /\ getSessionId(World) = authData[1].sessionId
    /\ getExpiresAt(World) # 0

----------------------------------------------------------------------------
(* The program on a storage that may be broken from the load on.           *)

StorageInit ==
    /\ now = 0
    /\ store \in {EmptyStore, OldStore, BrokenStore}
    /\ authData = <<>>
    /\ isLoading = TRUE
    /\ error = NoError
    /\ timer = NoTimer
    /\ calls = <<>>
    /\ reqs = <<>>
    /\ isRefreshing = FALSE
    /\ refreshPromise = FALSE
    /\ successRefreshQueue = <<>>
    /\ failedRefreshQueue = <<>>
    /\ issued = 0
    /\ out = [sent |-> {}, settled |-> {}, returned |-> {}]
    /\ probe = NoProbe

StorageSpec == StorageInit /\ [][Next]_vars

\* logout() is called in this step
LogoutRan ==
    /\ Len(calls') = Len(calls) + 1
    /\ calls'[Len(calls')].op = "logout"

\* C27: on a broken storage the functions of tokenManager return normally: a
\* login of a session with a token and a lifetime still installs the session
\* and schedules its refresh, a logout (clearAuth) still clears the session and
\* the timer, the getters give null, and the storage is left as it is.
C27_StorageFailureAbsorbed ==
    [][store.broken =>
          /\ (LoginRan /\ authData'[1].accessToken.id # 0
                       /\ authData'[1].accessExpiresIn # 0)
                => /\ timer'.st = "pending"
                   /\ timer'.delay = refreshTime(authData'[1].accessExpiresIn)
          /\ LogoutRan => authData' = <<>> /\ timer'.st # "pending"
          /\ getAccessToken(World) = NoToken
          /\ getSessionId(World) = 0
          /\ getExpiresAt(World) = 0
          /\ store' = store]_vars

\* on a broken storage a session is installed and its refresh is scheduled
C27_Witness ==
    /\ store.broken
    /\ authData # <<>>
    /\ authData[1].accessToken.id # 0
    /\ authData[1].accessExpiresIn = 100
    /\ timer.st = "pending"
    /\ timer.delay = 80000

\* C30 as stated: every request put on the wire carries the token the store
\* holds at that moment, and no Authorization header when the store holds none.
C30_CarriesStoreToken ==
    [][\A e \in out'.sent : e.auth = getAccessToken(World)'.id]_vars

\* C30: a request put on the wire carries the token the store holds at that
\* moment; when the store holds none, a new request carries no Authorization
\* header and a retry after a renewal carries the token the renewal obtained.
C30_CarriesStoreTokenOrRenewed ==
    [][\A e \in out'.sent :
          e.auth = IF getAccessToken(World)'.id # 0
                   THEN getAccessToken(World)'.id
                   ELSE IF reqs'[e.r].sends > 1 THEN issued' ELSE 0]_vars

\* a retry went out with the renewed token, which the store holds
C30_Witness ==
    /\ \E e \in out.sent : reqs[e.r].sends = 2 /\ e.auth = store.accessToken.id
    /\ store.accessToken.id = issued
    /\ issued > 0

----------------------------------------------------------------------------
(* The load of the page over whatever an earlier load left in localStorage: *)
(* a token well formed or not, with or without the claims exp and sub, a    *)
(* session id or none.                                                      *)

StoredTokens ==
    {NoToken} \cup
    {[id |-> MaxTok + 1, sub |-> sub, fmt |-> fmt, exp |-> exp] :
        sub \in {0, MaxTok + 1}, fmt \in BOOLEAN, exp \in {0} \cup StoredExps}

LoadInit ==
    /\ now \in LoadTimes
    /\ store \in {[accessToken |-> tok, sessionId |-> sid,
                   expiresAt |-> tok.exp * 1000, broken |-> FALSE] :
                     tok \in StoredTokens, sid \in {0, MaxTok + 1}}
    /\ authData = <<>>
    /\ isLoading = TRUE
    /\ error = NoError
    /\ timer = NoTimer
    /\ calls = <<>>
    /\ reqs = <<>>
    /\ isRefreshing = FALSE
    /\ refreshPromise = FALSE
    /\ successRefreshQueue = <<>>
    /\ failedRefreshQueue = <<>>
    /\ issued = 0
    /\ out = [sent |-> {}, settled |-> {}, returned |-> {}]
    /\ probe = NoProbe

LoadSpec == LoadInit /\ [][LoginNext]_vars

\* C31: initialize adopts a stored session only when the stored token passes
\* isValidTokenFormat, has an exp claim, the clock is more than 5000 ms before
\* exp, and the sub claim or the stored session id is not empty; the lifetime
\* of the adopted session is the whole seconds left until exp, at least 1.
C31_AdoptsOnlyValidStored ==
    [][(calls = <<>> /\ calls' # <<>> /\ authData' # <<>>) =>
          /\ isValidTokenFormat(store.accessToken)
          /\ store.accessToken.exp # 0
          /\ now < store.accessToken.exp * 1000 - 5000
          /\ store.accessToken.sub # 0 \/ store.sessionId # 0
          /\ authData'[1].accessToken = store.accessToken
          /\ authData'[1].sessionId \in {store.accessToken.sub, store.sessionId} \ {0}
          /\ authData'[1].accessExpiresIn =
                Max(1, (store.accessToken.exp * 1000 - now) \div 1000)]_vars

\* a token without a sub claim was adopted with the stored session id, 6001 ms
\* before its exp
C31_Witness ==
    /\ calls = <<Finished>>
    /\ now = 999
    /\ authData # <<>>
    /\ authData[1].accessToken.exp = 7
    /\ authData[1].accessToken.sub = 0
    /\ authData[1].sessionId = MaxTok + 1
    /\ authData[1].accessExpiresIn = 6

\* C32: for every lifetime of L >= 1 seconds the delay of the proactive
\* refresh is at most L - 5 seconds: the timer is due before the token counts
\* as expired under the 5 second margin.
C32_DelayWithinMargin ==
    [][\A s \in LoginSessions :
          (LoginCall(s) /\ Schedules(s) /\ s.accessExpiresIn >= 1) =>
              /\ timer'.st = "pending"
              /\ timer'.delay <= 1000 * (s.accessExpiresIn - 5)]_vars

\* C33: one run of initialize calls each endpoint at most once: once its
\* refreshToken() has called preAuthorize (the fallback), initialize posts no
\* second preAuthorize, and it posts no second refresh.
C33_EndpointsOncePerInitialize ==
    [][(calls # <<>> /\ calls[1].op = "init" /\ calls[1].pc \in {"fallback", "preauth"}) =>
          ~ /\ Len(reqs') = Len(reqs) + 1
            /\ reqs'[Len(reqs')].kind = "preauth"
            /\ reqs'[Len(reqs')].owner = 1
          /\ calls'[1].pc # "refresh"]_vars

\* no login, logout, refresh or renewal is in progress
Quiescent ==
    /\ Started
    /\ \A c \in DOMAIN calls : calls[c].pc = "done"
    /\ \A r \in DOMAIN reqs : reqs[r].st \in {"inflight", "done"}
    /\ \A r \in DOMAIN reqs : reqs[r].st = "inflight" => reqs[r].kind = "ordinary"
    /\ ~isRefreshing

\* C34: whenever nothing is in progress the store and the current session
\* agree: both hold no access token, or the token and the session id of the
\* store are those of the current session.
C34_StoreAgreesWithSession ==
    Quiescent =>
        \/ /\ getAccessToken(World).id = 0
           /\ authData = <<>> \/ authData[1].accessToken.id = 0
        \/ /\ authData # <<>>
           /\ getAccessToken(World) = authData[1].accessToken
           /\ getSessionId(World) = authData[1].sessionId

\* C35: between tasks the two queues have the same length; both are empty
\* whenever isRefreshing is false; a request is added to them only while
\* isRefreshing is true.
C35_QueuesInStep ==
    /\ [](/\ Len(successRefreshQueue) = Len(failedRefreshQueue)
          /\ ~isRefreshing => successRefreshQueue = <<>> /\ failedRefreshQueue = <<>>)
    /\ [][Len(successRefreshQueue') > Len(successRefreshQueue)
             => isRefreshing /\ isRefreshing']_vars

\* a request waits in both queues while a renewal is in flight
C35_Witness ==
    /\ isRefreshing
    /\ Len(successRefreshQueue) = 1
    /\ Len(failedRefreshQueue) = 1

\* the first 401 of request q is handled in this step
First401Handled(q) ==
    /\ q \in DOMAIN reqs
    /\ reqs[q].st = "inflight"
    /\ ~reqs[q].retry
    /\ reqs'[q].retry

\* C36: isRefreshing is true for the whole renewal, the fallback call
\* included, so a first 401 arriving meanwhile is queued and starts no renewal
\* of its own; when the renewal ends, whatever its outcome, the flag is false
\* and the queues are empty; a first 401 arriving while the flag is false
\* starts a renewal.
C36_FlagSpansRenewal ==
    /\ []((\E r \in DOMAIN reqs : Renewing(r)) => isRefreshing /\ refreshPromise)
    /\ [][\A q \in ReqIds :
            (First401Handled(q) /\ isRefreshing) =>
                /\ reqs'[q].st = "queued"
                /\ \E r \in DOMAIN reqs : Renewing(r) /\ reqs'[r] = reqs[r]]_vars
    /\ [][\A r \in DOMAIN reqs :
            (Renewing(r) /\ ~Renewing(r)') =>
                /\ ~isRefreshing'
                /\ ~refreshPromise'
                /\ successRefreshQueue' = <<>>
                /\ failedRefreshQueue' = <<>>
                /\ \A q \in DOMAIN reqs : reqs[q].st = "queued" => reqs'[q].st # "queued"]_vars
    /\ [][\A q \in ReqIds :
            (First401Handled(q) /\ ~isRefreshing) =>
                reqs'[q].st = "renewing" /\ isRefreshing']_vars

\* a request is queued while the fallback call of the renewal is outstanding
C36_Witness ==
    /\ isRefreshing
    /\ \E r, q \in DOMAIN reqs : reqs[r].st = "fallback" /\ reqs[q].st = "queued"

\* C37: whenever a session with a positive lifetime is current and no call of
\* the coordinator is in progress, a timer of the proactive refresh is pending.
C37_TimerWhileSession ==
    (/\ authData # <<>>
     /\ authData[1].accessExpiresIn > 0
     /\ \A c \in DOMAIN calls : calls[c].pc = "done")
        => timer.st = "pending"

====
